---------------------------- MODULE Spec2Model ----------------------------
(***************************************************************************)
(* The message handler of src/main.cpp (the telemetry-to-command pipeline  *)
(* of the model-predictive controller): the "42" framing, hasData's string *)
(* sniffing, the JSON decoding of the telemetry payload, the waypoint      *)
(* loop, polyfit's assertions, the call of the optimizer, the decoding of  *)
(* its result, the 100 ms sleep and the reply; and the single-threaded     *)
(* event loop that calls the handler.                                      *)
(*                                                                         *)
(* Texts are TLA+ strings read character by character (Len, SubSeq, \o).   *)
(* Positions are 1-based; 0 stands for string::npos.                       *)
(***************************************************************************)
EXTENDS Integers, Sequences, FiniteSets, TLC

(***************************************************************************)
(* std::string operations used by the handler                              *)
(***************************************************************************)

\* s.substr(i) for a 1-based i: the text from position i to the end
Rest(s, i) == IF i > Len(s) THEN "" ELSE SubSeq(s, i, Len(s))

\* whether pat occurs in s starting at position i
MatchAt(s, pat, i) ==
  /\ i >= 1
  /\ i + Len(pat) - 1 <= Len(s)
  /\ SubSeq(s, i, i + Len(pat) - 1) = pat

\* s.find(pat) / s.find_first_of(pat) for a one-character pat: first position, 0 when absent
Find(s, pat) ==
  LET hits == {i \in 1..Len(s) : MatchAt(s, pat, i)}
  IN  IF hits = {} THEN 0 ELSE CHOOSE i \in hits : \A k \in hits : i <= k

\* s.rfind(pat): last position, 0 when absent
RFind(s, pat) ==
  LET hits == {i \in 1..Len(s) : MatchAt(s, pat, i)}
  IN  IF hits = {} THEN 0 ELSE CHOOSE i \in hits : \A k \in hits : i >= k

\* hasData without its test for "null"
hasData_NoNullTest(s) ==
  LET b1 == Find(s, "[")
      b2 == RFind(s, "}]")
  IN  IF b1 # 0 /\ b2 # 0 /\ b2 + 1 >= b1 THEN SubSeq(s, b1, b2 + 1) ELSE ""

\* hasData (main.cpp:23-33): "" when the text holds "null" anywhere or lacks
\* a "[" or a "}]"; else substr(b1, b2 - b1 + 2).  The count is a size_t: with
\* b2 + 2 < b1 it wraps to a huge value and substr runs to the end of the text.
hasData(s) ==
  LET found_null == Find(s, "null")
      b1 == Find(s, "[")
      b2 == RFind(s, "}]")
  IN  IF found_null # 0 THEN ""
      ELSE IF b1 # 0 /\ b2 # 0
           THEN IF b2 + 2 >= b1 THEN (IF b2 + 1 < b1 THEN "" ELSE SubSeq(s, b1, b2 + 1))
                ELSE Rest(s, b1)
           ELSE ""

(***************************************************************************)
(* json::parse (json.hpp, called at main.cpp:84) on the texts the handler  *)
(* sees: null, numbers (-digits[.digits], kept as their lexeme), strings   *)
(* without escapes, arrays and objects, with blanks between tokens.        *)
(* A value is a record tagged by t.                                        *)
(***************************************************************************)

JNull == [t |-> "null"]
JNum(lex) == [t |-> "num", lex |-> lex]
JStr(str) == [t |-> "str", str |-> str]
JArr(a) == [t |-> "arr", a |-> a]
JObj(m) == [t |-> "obj", m |-> m]

\* F applied to the value of v, which is computed once
With(val0, F(_)) == CHOOSE res0 \in {F(arg0) : arg0 \in {val0}} : TRUE

\* a parse step: ok, the value, the position after it
POk(v, i) == [ok |-> TRUE, v |-> v, i |-> i]
PFail == [ok |-> FALSE, v |-> JNull, i |-> 0]

Ch(s, i) == IF i >= 1 /\ i <= Len(s) THEN SubSeq(s, i, i) ELSE ""

IsDigit(c) == c \in {"0", "1", "2", "3", "4", "5", "6", "7", "8", "9"}

RECURSIVE SkipWs(_, _)
SkipWs(s, i) == IF Ch(s, i) = " " THEN SkipWs(s, i + 1) ELSE i

RECURSIVE DigitsEnd(_, _)
\* the position after the run of digits starting at i (i itself when there is none)
DigitsEnd(s, i) == IF IsDigit(Ch(s, i)) THEN DigitsEnd(s, i + 1) ELSE i

\* -digits[.digits] from position i on
ParseNumber(s, i) ==
  With(DigitsEnd(s, IF Ch(s, i) = "-" THEN i + 1 ELSE i), LAMBDA b :
    IF ~IsDigit(Ch(s, b - 1)) THEN PFail
    ELSE IF Ch(s, b) # "." THEN POk(JNum(SubSeq(s, i, b - 1)), b)
    ELSE With(DigitsEnd(s, b + 1), LAMBDA c :
           IF c = b + 1 THEN PFail ELSE POk(JNum(SubSeq(s, i, c - 1)), c)))

\* i is the position after the opening quote
ParseString(s, i) ==
  With(Find(Rest(s, i), "\""), LAMBDA q :
    IF q = 0 THEN PFail
    ELSE POk(JStr(IF q = 1 THEN "" ELSE SubSeq(s, i, i + q - 2)), i + q))

RECURSIVE ParseValue(_, _), ParseElems(_, _, _), ParseMembers(_, _, _)

\* one element of an array at position i, and the position of what follows it
ParseElem(s, i) ==
  With(ParseValue(s, i), LAMBDA e :
    IF ~e.ok THEN PFail ELSE POk(e.v, SkipWs(s, e.i)))

\* one "key": value of an object at position i, and the position of what follows it
ParseMember(s, i) ==
  With(SkipWs(s, i), LAMBDA k0 :
    IF Ch(s, k0) # "\"" THEN PFail
    ELSE With(ParseString(s, k0 + 1), LAMBDA key :
      IF ~key.ok THEN PFail
      ELSE With(SkipWs(s, key.i), LAMBDA k1 :
        IF Ch(s, k1) # ":" THEN PFail
        ELSE With(ParseValue(s, k1 + 1), LAMBDA val :
          IF ~val.ok THEN PFail
          ELSE POk(key.v.str :> val.v, SkipWs(s, val.i))))))

ParseValue(s, i0) ==
  With(SkipWs(s, i0), LAMBDA i :
    IF MatchAt(s, "null", i) THEN POk(JNull, i + 4)
    ELSE IF Ch(s, i) = "\"" THEN ParseString(s, i + 1)
    ELSE IF Ch(s, i) = "-" \/ IsDigit(Ch(s, i)) THEN ParseNumber(s, i)
    ELSE IF Ch(s, i) = "["
         THEN IF Ch(s, SkipWs(s, i + 1)) = "]"
              THEN POk(JArr(<<>>), SkipWs(s, i + 1) + 1)
              ELSE ParseElems(s, i + 1, <<>>)
    ELSE IF Ch(s, i) = "{"
         THEN IF Ch(s, SkipWs(s, i + 1)) = "}"
              THEN POk(JObj(<<>>), SkipWs(s, i + 1) + 1)
              ELSE ParseMembers(s, i + 1, <<>>)
    ELSE PFail)

\* the elements of an array from position i on, acc the ones read so far
ParseElems(s, i, acc) ==
  With(ParseElem(s, i), LAMBDA e :
    IF ~e.ok THEN PFail
    ELSE IF Ch(s, e.i) = "," THEN ParseElems(s, e.i + 1, Append(acc, e.v))
    ELSE IF Ch(s, e.i) = "]" THEN POk(JArr(Append(acc, e.v)), e.i + 1)
    ELSE PFail)

\* the members of an object from position i on; a repeated key keeps its last value
ParseMembers(s, i, acc) ==
  With(ParseMember(s, i), LAMBDA m :
    IF ~m.ok THEN PFail
    ELSE IF Ch(s, m.i) = "," THEN ParseMembers(s, m.i + 1, m.v @@ acc)
    ELSE IF Ch(s, m.i) = "}" THEN POk(JObj(m.v @@ acc), m.i + 1)
    ELSE PFail)

\* json::parse(s): the whole text is one value; anything else throws
JsonParse(s) ==
  With(ParseValue(s, 1), LAMBDA p :
    IF p.ok /\ SkipWs(s, p.i) = Len(s) + 1 THEN p ELSE PFail)

(***************************************************************************)
(* The handler's decoding of one frame, up to the call of the optimizer    *)
(***************************************************************************)

\* main.cpp:81: sdata.size() > 2 && sdata[0] == '4' && sdata[1] == '2'
IsEvent(sdata) == Len(sdata) > 2 /\ Ch(sdata, 1) = "4" /\ Ch(sdata, 2) = "2"

\* json operator[](key) on j[1] followed by the conversion to double
\* (main.cpp:90-95): a value that is no object throws, a missing key is made
\* null, and a value that is no number throws on conversion
IsDouble(j1, key) ==
  /\ j1.t = "obj"
  /\ key \in DOMAIN j1.m
  /\ j1.m[key].t = "num"

\* json size() (main.cpp:98, 110): 0 for null (a missing key), the number of
\* elements of an array or members of an object, 1 for a scalar
JsonSize(j1, key) ==
  IF key \notin DOMAIN j1.m THEN 0
  ELSE LET v == j1.m[key]
       IN  IF v.t = "arr" THEN Len(v.a)
           ELSE IF v.t = "obj" THEN Cardinality(DOMAIN v.m)
           ELSE IF v.t = "null" THEN 0
           ELSE 1

\* the conversion to vector<double> (main.cpp:100-101): an array of numbers
IsDoubleVector(j1, key) ==
  /\ key \in DOMAIN j1.m
  /\ j1.m[key].t = "arr"
  /\ \A i \in 1..Len(j1.m[key].a) : j1.m[key].a[i].t = "num"

\* the six scalar fields in the order the handler reads them (main.cpp:90-95)
ScalarFields == <<"x", "y", "psi", "speed", "steering_angle", "throttle">>

\* main.cpp:81-101: what the handler finds in the frame.  path is
\*   "noevent"   the outer else branch (main.cpp:203)
\*   "manual"    hasData gave "" (main.cpp:197)
\*   "throw"     json::parse or a conversion threw
\*   "ub"        j[1] read past the end of the array
\*   "ignored"   an event other than "telemetry"
\*   "telemetry" the fields are read: ptsize, and the sizes of ptsx and ptsy
Decode(sdata) ==
  LET none == [path |-> "noevent", ptsize |-> 0, nx |-> 0, ny |-> 0]
  IN  IF ~IsEvent(sdata) THEN none
      ELSE With(hasData(sdata), LAMBDA s :
        IF s = "" THEN [none EXCEPT !.path = "manual"]
        ELSE With(JsonParse(s), LAMBDA p :
          IF ~p.ok THEN [none EXCEPT !.path = "throw"]
          ELSE IF p.v.t # "arr" \/ Len(p.v.a) = 0 THEN [none EXCEPT !.path = "throw"]
          ELSE IF p.v.a[1].t # "str" THEN [none EXCEPT !.path = "throw"]
          ELSE IF p.v.a[1].str # "telemetry" THEN [none EXCEPT !.path = "ignored"]
          ELSE IF Len(p.v.a) < 2 THEN [none EXCEPT !.path = "ub"]
          ELSE With(p.v.a[2], LAMBDA j1 :
            IF \E k \in 1..Len(ScalarFields) : ~IsDouble(j1, ScalarFields[k])
            THEN [none EXCEPT !.path = "throw"]
            ELSE IF ~IsDoubleVector(j1, "ptsx") \/ ~IsDoubleVector(j1, "ptsy")
                 THEN [none EXCEPT !.path = "throw"]
            ELSE [path |-> "telemetry", ptsize |-> JsonSize(j1, "ptsx"),
                  nx |-> Len(j1.m["ptsx"].a), ny |-> Len(j1.m["ptsy"].a)])))

\* the waypoint loop (main.cpp:110-116): i runs over 0 .. j[1]["ptsx"].size()-1
\* and reads ptsx[i] and ptsy[i]; here the 1-based positions it reads
LoopIndices(n) == 1..n

\* the loop's reads of ptsx and ptsy for a decoded telemetry frame
WaypointReads(d) == [x |-> LoopIndices(d.ptsize), y |-> LoopIndices(d.ptsize)]

\* a read of std::vector past its size (undefined behaviour)
OutOfBounds(d) ==
  \/ \E i \in WaypointReads(d).x : i > d.nx
  \/ \E i \in WaypointReads(d).y : i > d.ny

\* the order of the fit the handler asks for (main.cpp:124)
FitOrder == 3

\* polyfit's assertions (main.cpp:48-49) on vectors of sizes xn and yn
PolyfitAsserts(xn, yn, order) ==
  /\ xn = yn
  /\ order >= 1 /\ order <= xn - 1

(***************************************************************************)
(* The optimizer's result and its decoding into the reply                  *)
(***************************************************************************)

\* the longest optimizer result considered
MaxResultLen == 6

\* mpc.Solve (MPC.h; main.cpp:140) seen from the handler: some vector<double>
\* of at least the two actuations.  The handler checks nothing about it, so
\* both parities of the trajectory part are returned: the two actuations
\* alone, the longest result and the one an element shorter.  Element i
\* (1-based) is 10 * i + 5.
SolveResults ==
  {[i \in 1..n |-> 10 * i + 5] : n \in {2, MaxResultLen - 1, MaxResultLen}}

\* the parity test with the two branches exchanged
ToMpcX_Swapped(i) == i % 2 = 1

\* the parity test of the trajectory loop (main.cpp:165), i the C++ index
ToMpcX(i) == i % 2 = 0

RECURSIVE Trajectory(_, _, _, _)
\* the trajectory loop (main.cpp:164-171) from C++ index i on: result[i] is
\* pushed to mpc_x_vals when i is even and to mpc_y_vals when it is odd
Trajectory(result, i, mpc_x_vals, mpc_y_vals) ==
  IF ~(i < Len(result)) THEN [mpc_x |-> mpc_x_vals, mpc_y |-> mpc_y_vals]
  ELSE IF ToMpcX(i)
       THEN Trajectory(result, i + 1, Append(mpc_x_vals, result[i + 1]), mpc_y_vals)
       ELSE Trajectory(result, i + 1, mpc_x_vals, Append(mpc_y_vals, result[i + 1]))

\* msgJson (main.cpp:142-174) without the reference line next_x, next_y
SteerMsg(result) ==
  [event |-> "steer",
   steering_angle |-> result[1],
   throttle |-> result[2],
   mpc_x |-> Trajectory(result, 2, <<>>, <<>>).mpc_x,
   mpc_y |-> Trajectory(result, 2, <<>>, <<>>).mpc_y]

\* main.cpp:199
ManualMsg == [event |-> "manual", text |-> "42[\"manual\",{}]"]

(***************************************************************************)
(* The frames a simulator session sends                                    *)
(***************************************************************************)

Pose == "\"x\":-40.62,\"y\":108.73,\"psi\":3,\"speed\":10,\"steering_angle\":0,\"throttle\":1"

Telemetry(fields) == "42[\"telemetry\",{" \o fields \o "}]"

Waypoints(ptsx, ptsy) ==
  Telemetry(Pose \o ",\"ptsx\":" \o ptsx \o ",\"ptsy\":" \o ptsy)

Frames ==
  << "42[\"telemetry\",null]",
     "42[\"telemetry\"]",
     "42",
     "2",
     Waypoints("[1,2,3,4]", "[5,6,7,8]"),
     Waypoints("[1,2,3]", "[5,6,7]"),
     Waypoints("[1,2,3,4]", "[5,6,7]"),
     Waypoints("[1,2,3,4]", "[5,6,7,8,9]"),
     Telemetry("\"x\":1,\"y\":2,\"ptsx\":[1,2,3,4],\"ptsy\":[5,6,7,8]"),
     "42[\"telemetry\",{\"x\":}]",
     "42[\"status\",{}]",
     "42[\"nullify\",{}]",
     "42[\"status\",{\"lap\":null}]",
     "42[\"a}]\"]" >>

FrameIds == 1..Len(Frames)

\* the decoding of each frame of the catalogue
Decoded == [f \in FrameIds |-> Decode(Frames[f])]

(***************************************************************************)
(* The server: one thread running h.run(), which calls the handlers        *)
(***************************************************************************)

\* the simulator sessions that may connect
Sessions == {"ws1", "ws2"}

\* the frames delivered in one run of the model
MaxFrames == 2

\* the clock's step and its end, in milliseconds
TickMs == 50
MaxTime == 50

\* main.cpp:192
LatencyMs == 100

VARIABLES
  alive,    \* the process is running (FALSE once it aborted or terminated)
  ndebug,   \* the build: TRUE when NDEBUG compiles the asserts out
  now,      \* the clock, in milliseconds
  conns,    \* the open sessions
  calls,    \* the onMessage calls in progress: [id, ws, at, pc, result, msg, wakeAt]
  log,      \* the frames handed to onMessage, in order: [ws, frame, out]
  sent      \* the ws.send calls, in order: [ws, id, recvAt, at, result, msg]

vars == <<alive, ndebug, now, conns, calls, log, sent>>

Init ==
  /\ alive = TRUE
  /\ ndebug \in BOOLEAN
  /\ now = 0
  /\ conns = {}
  /\ calls = {}
  /\ log = <<>>
  /\ sent = <<>>

\* an event loop that polls again while a handler sleeps
LoopIdle_DuringSleep == \A c \in calls : c.pc = "sleep"

\* handlers called from several threads
LoopIdle_Threads == TRUE

\* h.run() (main.cpp:238) calls a handler from its one thread and polls again
\* only when the handler has returned
LoopIdle == calls = {}

\* onConnection (main.cpp:221-223)
OnConnection(ws) ==
  /\ alive /\ LoopIdle
  /\ ws \notin conns
  /\ conns' = conns \cup {ws}
  /\ UNCHANGED <<alive, ndebug, now, calls, log, sent>>

\* onDisconnection (main.cpp:225-229)
OnDisconnection(ws) ==
  /\ alive /\ LoopIdle
  /\ ws \in conns
  /\ conns' = conns \ {ws}
  /\ UNCHANGED <<alive, ndebug, now, calls, log, sent>>

\* how the handler leaves its synchronous first part (main.cpp:79-140) for a
\* decoded frame d: nd is the build, ub the outcome of an out-of-bounds read
\*   "noevent", "ignored"  it returns without a reply
\*   "manual"              it sends the manual reply and returns
\*   "throw"               an exception leaves the handler, h.run() and main
\*   "segv"                the out-of-bounds read faults (when it does not, the
\*                         handler goes on with whatever it read; past the end
\*                         of j that is no object, and the conversions throw)
\*   "assert"              an assert of polyfit aborts
\*   "solve"               it calls mpc.Solve
Outcome(d, nd, ub) ==
  IF d.path \in {"noevent", "ignored", "manual", "throw"} THEN d.path
  ELSE IF d.path = "ub" THEN (IF ub = "segv" THEN "segv" ELSE "throw")
  ELSE IF OutOfBounds(d) /\ ub = "segv" THEN "segv"
  ELSE IF ~nd /\ ~PolyfitAsserts(d.ptsize, d.ptsize, FitOrder) THEN "assert"
  ELSE "solve"

\* the outcomes that end the process: no try block encloses the handler
\* (main.cpp:73-205) or h.run() (main.cpp:238)
Fatal(out) == out \in {"throw", "segv", "assert"}

\* onMessage (main.cpp:73-205) up to the call of mpc.Solve
OnMessage(ws, f) ==
  /\ alive /\ LoopIdle
  /\ ws \in conns
  /\ Len(log) < MaxFrames
  /\ \E ub \in {"garbage", "segv"} :
       LET out == Outcome(Decoded[f], ndebug, ub)
           id == Len(log) + 1
       IN  /\ log' = Append(log, [ws |-> ws, frame |-> f, out |-> out])
           /\ alive' = ~Fatal(out)
           /\ sent' = IF out = "manual"
                      THEN Append(sent, [ws |-> ws, id |-> id, recvAt |-> now, at |-> now,
                                         result |-> <<>>, msg |-> ManualMsg])
                      ELSE sent
           /\ conns' = IF Fatal(out) THEN {} ELSE conns
           /\ calls' = IF out = "solve"
                       THEN calls \cup {[id |-> id, ws |-> ws, at |-> now, pc |-> "solve",
                                         result |-> <<>>, msg |-> ManualMsg, wakeAt |-> 0]}
                       ELSE calls
  /\ UNCHANGED <<ndebug, now>>

\* a reply that does not wait
WakeTime_NoSleep(t) == t

\* this_thread::sleep_for (main.cpp:192) entered at time t: the thread runs
\* again no earlier than
WakeTime(t) == t + LatencyMs

\* mpc.Solve returns (main.cpp:140); the handler builds the reply and sleeps
\* (main.cpp:142-192)
SolveReturns(c, result) ==
  /\ alive
  /\ c \in calls /\ c.pc = "solve"
  /\ calls' = (calls \ {c}) \cup
                {[c EXCEPT !.pc = "sleep", !.result = result, !.msg = SteerMsg(result),
                           !.wakeAt = WakeTime(now)]}
  /\ UNCHANGED <<alive, ndebug, now, conns, log, sent>>

\* the sleep is over; ws.send (main.cpp:194) and the handler returns
Send(c) ==
  /\ alive
  /\ c \in calls /\ c.pc = "sleep"
  /\ now >= c.wakeAt
  /\ sent' = Append(sent, [ws |-> c.ws, id |-> c.id, recvAt |-> c.at, at |-> now,
                           result |-> c.result, msg |-> c.msg])
  /\ calls' = calls \ {c}
  /\ UNCHANGED <<alive, ndebug, now, conns, log>>

\* time passes during a call (the handler reads no clock, so the time between
\* calls changes nothing): up to MaxTime, and past it for as long as a call sleeps
Tick ==
  /\ alive
  /\ calls # {}
  /\ \/ now + TickMs <= MaxTime
     \/ \E c \in calls : c.pc = "sleep" /\ now < c.wakeAt
  /\ now' = now + TickMs
  /\ UNCHANGED <<alive, ndebug, conns, calls, log, sent>>

Next ==
  \/ \E ws \in Sessions : OnConnection(ws)
  \/ \E ws \in Sessions : OnDisconnection(ws)
  \/ \E ws \in Sessions, f \in FrameIds : OnMessage(ws, f)
  \/ \E c \in calls, result \in SolveResults : SolveReturns(c, result)
  \/ \E c \in calls : Send(c)
  \/ Tick

Spec == Init /\ [][Next]_vars

(***************************************************************************)
(* What a frame carries, read as the protocol defines it: the two          *)
(* characters "42" followed by a JSON array [eventName, payloadObject]     *)
(***************************************************************************)

HasPrefix(text) == Len(text) >= 2 /\ SubSeq(text, 1, 2) = "42"

\* the text after the prefix, parsed as a whole
Envelope(text) == JsonParse(Rest(text, 3))

\* the envelope is an array of n elements the first of which is a string
IsEnvelope(text, n) ==
  /\ HasPrefix(text)
  /\ Envelope(text).ok
  /\ Envelope(text).v.t = "arr"
  /\ Len(Envelope(text).v.a) = n
  /\ Envelope(text).v.a[1].t = "str"

\* nothing follows the prefix, or the array has no second element, or that
\* element is the JSON null
PayloadAbsentOrNull(text) ==
  \/ text = "42"
  \/ IsEnvelope(text, 1)
  \/ IsEnvelope(text, 2) /\ Envelope(text).v.a[2].t = "null"

\* [eventName, payloadObject] with a payload object
IsEventWithObject(text) == IsEnvelope(text, 2) /\ Envelope(text).v.a[2].t = "obj"

EventName(text) == Envelope(text).v.a[1].str
Payload(text) == Envelope(text).v.a[2]

RequiredFields ==
  {"x", "y", "psi", "speed", "steering_angle", "throttle", "ptsx", "ptsy"}

\* a telemetry event whose payload lacks a required field
MissingField(text) ==
  /\ IsEventWithObject(text)
  /\ EventName(text) = "telemetry"
  /\ \E k \in RequiredFields : k \notin DOMAIN Payload(text).m

\* the text hasData extracts is no JSON
Unparseable(text) ==
  /\ HasPrefix(text)
  /\ hasData(text) # ""
  /\ ~JsonParse(hasData(text)).ok

\* a telemetry event with all its fields, numbers and sequences of numbers
IsTelemetry(text) ==
  /\ IsEventWithObject(text)
  /\ EventName(text) = "telemetry"
  /\ \A k \in 1..Len(ScalarFields) : IsDouble(Payload(text), ScalarFields[k])
  /\ IsDoubleVector(Payload(text), "ptsx")
  /\ IsDoubleVector(Payload(text), "ptsy")

NumPoints(text, key) == Len(Payload(text).m[key].a)

\* each frame of the catalogue under these readings
Kind ==
  [f \in FrameIds |->
     [absent |-> PayloadAbsentOrNull(Frames[f]),
      nodata |-> Len(Frames[f]) > 2 /\ HasPrefix(Frames[f])
                   /\ (Find(Frames[f], "null") # 0 \/ Find(Frames[f], "[") = 0
                         \/ RFind(Frames[f], "}]") = 0),
      malformed |-> Unparseable(Frames[f]) \/ MissingField(Frames[f]),
      unknown |-> IsEventWithObject(Frames[f]) /\ EventName(Frames[f]) # "telemetry",
      telemetry |-> IsTelemetry(Frames[f]),
      few |-> IsTelemetry(Frames[f]) /\ NumPoints(Frames[f], "ptsx") < FitOrder + 1
                /\ NumPoints(Frames[f], "ptsy") < FitOrder + 1]]

\* the replies sent for frame id
Replies(id) == {k \in DOMAIN sent : sent[k].id = id}

\* the handler called mpc.Solve for frame id
Solved(id) == log[id].out = "solve"

(***************************************************************************)
(* C1                                                                      *)
(***************************************************************************)

C2_MalformedIsDropped ==
  \A id \in DOMAIN log :
    Kind[log[id].frame].malformed =>
      /\ Replies(id) = {}
      /\ ~Fatal(log[id].out)
      /\ alive

(***************************************************************************)
(* C3                                                                      *)
(***************************************************************************)

\* C3: a telemetry event with fewer than 4 waypoints is rejected before the
\* fit: the process is not aborted and neither the fit nor the optimizer runs
\* (the handler calls mpc.Solve only with the coefficients polyfit returned).
C3_FewWaypointsRejected ==
  \A id \in DOMAIN log :
    Kind[log[id].frame].few =>
      /\ ~Fatal(log[id].out)
      /\ ~Solved(id)

(***************************************************************************)
(* C4                                                                      *)
(***************************************************************************)

\* the trajectory part of an optimizer result (its elements after the second)
\* has odd length
OddTrajectory(result) == Len(result) > 2 /\ (Len(result) - 2) % 2 = 1

\* C4: no "steer" reply is sent for an optimizer result whose trajectory part
\* has odd length, and no reply carries mpc_x and mpc_y of unequal length.
C4_OddTrajectoryNotSent ==
  \A k \in DOMAIN sent :
    sent[k].msg.event = "steer" =>
      /\ ~OddTrajectory(sent[k].result)
      /\ Len(sent[k].msg.mpc_x) = Len(sent[k].msg.mpc_y)

(***************************************************************************)
(* C5                                                                      *)
(***************************************************************************)

\* C5: a frame [eventName, payloadObject] whose event name is not "telemetry"
\* gets no reply and no call of the optimizer.
C5_UnknownEventIgnored ==
  \A id \in DOMAIN log :
    Kind[log[id].frame].unknown => Replies(id) = {} /\ ~Solved(id)

(***************************************************************************)
(* C6                                                                      *)
(***************************************************************************)

\* C6: for an optimizer result r of length at least 2 with an even number of
\* elements after the second, the "steer" reply has steering_angle = r[0],
\* throttle = r[1], and mpc_x and mpc_y of length (length(r) - 2) / 2 whose k-th
\* pair (k from 0) is (r[2+2k], r[3+2k]).  Sequences here are 1-based, so the
\* C++ r[i] is r[i + 1].
C6_SteerDecodesResult ==
  \A n \in DOMAIN sent :
    LET r == sent[n].result
        m == sent[n].msg
    IN  (m.event = "steer" /\ Len(r) >= 2 /\ (Len(r) - 2) % 2 = 0) =>
          /\ m.steering_angle = r[0 + 1]
          /\ m.throttle = r[1 + 1]
          /\ Len(m.mpc_x) = (Len(r) - 2) \div 2
          /\ Len(m.mpc_y) = (Len(r) - 2) \div 2
          /\ \A k \in 0..((Len(r) - 2) \div 2 - 1) :
               /\ m.mpc_x[k + 1] = r[(2 + 2 * k) + 1]
               /\ m.mpc_y[k + 1] = r[(3 + 2 * k) + 1]

\* a reply built from a result with two trajectory points has been sent
C6_Witness ==
  \E n \in DOMAIN sent :
    /\ sent[n].msg.event = "steer"
    /\ Len(sent[n].result) = 6
    /\ Len(sent[n].msg.mpc_x) = 2

(***************************************************************************)
(* C7                                                                      *)
(***************************************************************************)

\* C7: a "steer" reply is sent no earlier than the latency after its telemetry
\* frame was handed to the handler.
C7_SteerAfterLatency ==
  \A n \in DOMAIN sent :
    sent[n].msg.event = "steer" => sent[n].at >= sent[n].recvAt + LatencyMs

\* a reply sent after the optimizer took some time and the sleep was over
C7_Witness ==
  \E n \in DOMAIN sent :
    /\ sent[n].msg.event = "steer"
    /\ sent[n].at > sent[n].recvAt + LatencyMs

(***************************************************************************)
(* C8                                                                      *)
(***************************************************************************)

C9_OneSolveAtATime ==
  Cardinality({c \in calls : c.pc = "solve"}) <= 1

\* mpc.Solve runs for a frame of one session after it ran for another session
C9_Witness ==
  \E c \in calls :
    /\ c.pc = "solve"
    /\ \E id \in DOMAIN log : id < c.id /\ Solved(id) /\ log[id].ws # c.ws

(***************************************************************************)
(* C10                                                                     *)
(***************************************************************************)

\* C10: for every telemetry event the handler decodes, the waypoint loop reads
\* ptsx[i] and ptsy[i] only at positions inside the two vectors.
C10_WaypointReadsInBounds ==
  \A id \in DOMAIN log :
    LET d == Decoded[log[id].frame]
    IN  d.path = "telemetry" =>
          /\ WaypointReads(d).x \subseteq 1..d.nx
          /\ WaypointReads(d).y \subseteq 1..d.ny

=============================================================================
